---------------------------- MODULE Spec2Model ----------------------------
(***************************************************************************)
(* A model of the legacy-scrobbler listening-history pipeline:             *)
(*   - the play-event expander and the scrobble submission of              *)
(*     src/src/renderer/utils/lastfm.js,                                   *)
(*   - the iTunesDB / iTunesCDB / Play Counts decoder of                   *)
(*     src/unnamed/part_000.                                               *)
(* Each component has its own specification; the variables of the other    *)
(* components stay at their idle values.                                   *)
(***************************************************************************)
EXTENDS Integers, Sequences, FiniteSets, TLC

VARIABLES
    \* ---- getRecentTracks / scrobbleTracks (SpecExpand)
    stage,        \* "idle" | "input" | "recent" | "expanded"
    tracklist,    \* the track list handed from stage to stage
    filtered,     \* TRUE when tracklist went through getRecentTracks
    expanded,     \* the events built by expandTracksByPlayCount
    status        \* the { status } scrobbleTracks returns ("none" before)

expVars == <<stage, tracklist, filtered, expanded, status>>

VARIABLES
    \* ---- scrobbleTracksIndividually (SpecScrobble)
    scrPc,         \* "idle" | "start" | "awaiting" | "returned"
    scrCount,      \* tracklist.length of the call
    request,       \* per index: "unsent" | "pending" | "success" | "failure" | "throw"
    callback,      \* per index: "waiting" | "resumable" | "done" (the map callback)
    statusCalls,   \* per index: the statuses passed to updateTrackStatus, in order
    failedTracks,  \* the failedTracks array (indices of the pushed tracks)
    scrReturned    \* the list the call resolved with (<<>> before it resolves)

scrVars == <<scrPc, scrCount, request, callback, statusCalls, failedTracks, scrReturned>>

VARIABLES
    \* ---- parse: parseItunesDb, then parsePlayCounts (SpecDecode)
    dbPc,          \* where the parse call stands ("idle" when not running)
    dbPath,        \* "iTunesCDB" | "iTunesDB": the file findItunesDbFile chose
    layout,        \* the records the database file was built from
    tzOffset,      \* new Date().getTimezoneOffset() * 60
    dbHandle,      \* "none" | "open" | "closed": the database file handle
    dbTracks,      \* tracklist
    result,        \* "pending" | "resolved" | "rejected": how parse() ended
    cdbFile,       \* the iTunesCDB file: [tag, inflates, payload]
    inflated,      \* the buffer inflateRaw returned
    datasetPos,    \* parseDecompressedDatabase: pos, the dataset cursor
    iter,          \* parseDecompressedDatabase: iterations of its loop so far
    listPos,       \* parseTrackList: pos
    listI,         \* parseTrackList: i
    numTracks      \* parseTrackList: numTracks

dbVars == <<dbPc, dbPath, layout, tzOffset, dbHandle, dbTracks, result>>
cdbVars == <<cdbFile, inflated, datasetPos, iter, listPos, listI, numTracks>>

VARIABLES
    \* ---- the uncompressed path and parsePlayCounts (SpecDecode)
    udbFile,        \* the bytes of the iTunesDB file
    totalBytesRead, \* parseUncompressedItunesDb: totalBytesRead
    mhitCalls,      \* the file offsets of the markers parseMhit was called for
    pcFile,         \* the bytes of the Play Counts file
    pcEntries,      \* the entries the Play Counts file was built from
    pcHandle,       \* "none" | "open" | "closed": the Play Counts file handle
    tracksAtEntry,  \* the tracklist as parsePlayCounts received it
    dword,          \* parsePlayCounts: the 4-byte buffer every read fills
    entryLen,       \* parsePlayCounts: entryLen
    numEntries,     \* parsePlayCounts: numEntries
    bytesOffset,    \* parsePlayCounts: bytesOffset
    entryIndex      \* parsePlayCounts: i

udbVars == <<udbFile, totalBytesRead, mhitCalls>>
pcVars == <<pcFile, pcEntries, pcHandle, tracksAtEntry, dword, entryLen, numEntries, bytesOffset, entryIndex>>

vars == <<expVars, scrVars, dbVars, cdbVars, udbVars, pcVars>>

(***************************************************************************)
(* Bounds of the model.                                                    *)
(***************************************************************************)
MaxTracks == 2
MaxPlayCount == 3
MaxScrobbles == 3
MaxRecords == 2
MaxIter == 6
MaxEntries == 2

(***************************************************************************)
(* Generic helpers.                                                        *)
(***************************************************************************)
RECURSIVE SeqsUpTo(_, _)
SeqsUpTo(S, n) ==
    IF n = 0 THEN {<<>>}
    ELSE LET shorter == SeqsUpTo(S, n - 1)
         IN  shorter \cup {Append(s, x) : s \in {t \in shorter : Len(t) = n - 1}, x \in S}

(***************************************************************************)
(* Tracks.  A decoded track always carries id, title and length; playCount *)
(* and lastPlayed are set together (parseTrackFromBuffer sets both,        *)
(* parsePlayCounts sets both or neither), so one flag says whether they    *)
(* are present.  An absent field reads as undefined in the code.           *)
(***************************************************************************)
Track(id, hasPlays, playCount, lastPlayed, length) ==
    [id |-> id, hasPlays |-> hasPlays, playCount |-> playCount,
     lastPlayed |-> lastPlayed, length |-> length]

\* A spacing computed without the 180000 default.
trackLengthSeconds_NoDefault(track) == track.length \div 1000

\* Math.floor((track.length || 180000) / 1000)
trackLengthSeconds(track) ==
    (IF track.length = 0 THEN 180000 ELSE track.length) \div 1000

\* track.playCount || 1
playsOf(track) ==
    IF track.hasPlays /\ track.playCount # 0 THEN track.playCount ELSE 1

\* { ...track, playCount: 1, lastPlayed: track.lastPlayed - i * trackLength };
\* undefined - n is NaN.
expandedEvent(track, k, i) ==
    [src |-> k, id |-> track.id, playCount |-> 1,
     isNaN |-> ~track.hasPlays,
     lastPlayed |-> IF track.hasPlays
                    THEN track.lastPlayed - (i * trackLengthSeconds(track))
                    ELSE 0]

RECURSIVE expandOne(_, _, _)
expandOne(track, k, i) ==
    IF i >= playsOf(track) THEN <<>>
    ELSE <<expandedEvent(track, k, i)>> \o expandOne(track, k, i + 1)

RECURSIVE expandFrom(_, _)
expandFrom(list, k) ==
    IF k > Len(list) THEN <<>>
    ELSE expandOne(list[k], k, 0) \o expandFrom(list, k + 1)

expandTracksByPlayCount(list) == expandFrom(list, 1)

\* tracklist.filter(entry => entry.playCount && entry.playCount > 0)
RECURSIVE filterPlayed(_)
filterPlayed(list) ==
    IF list = <<>> THEN <<>>
    ELSE LET t == Head(list)
         IN  (IF t.hasPlays /\ t.playCount > 0 THEN <<t>> ELSE <<>>)
             \o filterPlayed(Tail(list))

\* Array.prototype.sort is stable; (a, b) => b.lastPlayed - a.lastPlayed puts
\* the larger lastPlayed first and keeps equal ones in their order.
RECURSIVE insertDesc(_, _)
insertDesc(sorted, t) ==
    IF sorted = <<>> THEN <<t>>
    ELSE IF Head(sorted).lastPlayed >= t.lastPlayed
         THEN <<Head(sorted)>> \o insertDesc(Tail(sorted), t)
         ELSE <<t>> \o sorted

RECURSIVE sortByLastPlayedDesc(_)
sortByLastPlayedDesc(list) ==
    IF list = <<>> THEN <<>>
    ELSE insertDesc(sortByLastPlayedDesc(SubSeq(list, 1, Len(list) - 1)),
                    list[Len(list)])

recentPlaysOf(list) == sortByLastPlayedDesc(filterPlayed(list))

(***************************************************************************)
(* Bytes.  A Buffer or a file is a sequence of bytes 0..255; offsets are   *)
(* 0-based as in the code.  The inputs keep the top byte of every 32-bit   *)
(* field below 128, so that the values stay inside TLC's integers.         *)
(***************************************************************************)
Zeros(n) == [k \in 1..n |-> 0]

U32(n) == <<n % 256, (n \div 256) % 256, (n \div 65536) % 256, (n \div 16777216) % 256>>

TagMhsd == <<109, 104, 115, 100>>
TagMhlt == <<109, 104, 108, 116>>
TagMhit == <<109, 104, 105, 116>>
TagMhod == <<109, 104, 111, 100>>
TagMhbd == <<109, 104, 98, 100>>

\* Buffer.readUInt32LE(0) on buffer.slice(pos, pos + 4) throws a RangeError
\* unless the slice holds 4 bytes.
canRead32(buffer, pos) == pos >= 0 /\ pos + 4 <= Len(buffer)

\* readUInt32LE(buffer.slice(pos, pos + 4))
readUInt32LE(buffer, pos) ==
    buffer[pos + 1] + 256 * buffer[pos + 2] + 65536 * buffer[pos + 3]
        + 16777216 * buffer[pos + 4]

\* buffer.toString('ascii', pos, pos + 4): the range is clamped to the
\* buffer, and the 'ascii' decoder drops the high bit of every byte.
asciiAt(buffer, pos) ==
    LET last == IF pos + 4 <= Len(buffer) THEN pos + 4 ELSE Len(buffer)
    IN  [k \in 1..(IF last > pos THEN last - pos ELSE 0) |-> buffer[pos + k] % 128]

\* buffer.toString('utf16le', pos, pos + n): one code unit per byte pair, a
\* trailing odd byte is dropped.
decodeUtf16le(buffer, pos, n) ==
    [k \in 1..(n \div 2) |-> buffer[pos + 2 * k - 1] + 256 * buffer[pos + 2 * k]]

\* buffer.toString('utf8', pos, pos + n) for ASCII bytes; any other byte is
\* read as U+FFFD.
decodeUtf8(buffer, pos, n) ==
    [k \in 1..n |-> IF buffer[pos + k] < 128 THEN buffer[pos + k] ELSE 65533]

\* str.replace(/\0/g, '')
stripNul(str) == SelectSeq(str, LAMBDA c : c # 0)

(***************************************************************************)
(* Timestamps.                                                             *)
(***************************************************************************)
HfsEpochDelta == 2082844800

\* parseTrackFromBuffer: if (lastPlayed > 0) { lastPlayed -= 2082844800;
\* lastPlayed += tzOffset }
hfsToUnixGuarded(raw, tz) == IF raw > 0 THEN raw - HfsEpochDelta + tz ELSE raw

\* parsePlayCounts: lastPlayed -= 2082844800; lastPlayed += offset
hfsToUnixUnguarded(raw, tz) == raw - HfsEpochDelta + tz

(***************************************************************************)
(* The structured decode of an inflated buffer.                            *)
(***************************************************************************)
\* The track object parseTrackFromBuffer builds; raw and at are not fields of
\* the code's object: they record the stored last-played value and the offset
\* of the record the track was decoded from.
newTrack(sequenceIndex, trackLength, playCount, lastPlayed, raw, at) ==
    [track |-> <<>>, artist |-> <<>>, album |-> <<>>,
     hasPlays |-> TRUE, playCount |-> playCount, lastPlayed |-> lastPlayed,
     id |-> sequenceIndex, length |-> trackLength, raw |-> raw, at |-> at]

\* switch (mhodType) { case 1: track.track; case 3: track.album; case 4: track.artist }
setString(track, mhodType, str) ==
    CASE mhodType = 1 -> [track EXCEPT !.track = str]
      [] mhodType = 3 -> [track EXCEPT !.album = str]
      [] mhodType = 4 -> [track EXCEPT !.artist = str]
      [] OTHER -> track

\* Returns the size to advance by and the track with the string stored.
parseMhodFromBuffer(buffer, mhodStart, track) ==
    IF asciiAt(buffer, mhodStart) # TagMhod THEN [size |-> 4, track |-> track]
    ELSE IF ~canRead32(buffer, mhodStart + 12)
    THEN [size |-> 4, track |-> track]          \* a read threw: catch returns 4
    ELSE
    LET mhodHeaderSize == readUInt32LE(buffer, mhodStart + 4)
        mhodTotalSize == readUInt32LE(buffer, mhodStart + 8)
        mhodType == readUInt32LE(buffer, mhodStart + 12)
        pos == mhodStart + mhodHeaderSize
    IN  IF pos + 16 > Len(buffer) THEN [size |-> mhodTotalSize, track |-> track]
        ELSE
        LET encodingCode == readUInt32LE(buffer, pos)
            strLen == readUInt32LE(buffer, pos + 4)
            strPos == pos + 16
        IN  IF strLen > 0 /\ strLen < 10000 /\ strPos + strLen <= Len(buffer)
            THEN [size |-> mhodTotalSize,
                  track |-> setString(track, mhodType,
                      stripNul(IF encodingCode = 1
                               THEN decodeUtf16le(buffer, strPos, strLen)
                               ELSE decodeUtf8(buffer, strPos, strLen)))]
            ELSE [size |-> mhodTotalSize, track |-> track]

\* for (let i = 0; i < numMhods && mhodPos < mhitEnd; i++) { ... }
RECURSIVE mhodLoop(_, _, _, _, _, _)
mhodLoop(buffer, i, numMhods, mhodPos, mhitEnd, track) ==
    IF ~(i < numMhods /\ mhodPos < mhitEnd) THEN track
    ELSE LET r == parseMhodFromBuffer(buffer, mhodPos, track)
         IN  mhodLoop(buffer, i + 1, numMhods, mhodPos + r.size, mhitEnd, r.track)

\* Returns [ok |-> FALSE] for null, [ok |-> TRUE, track |-> ...] otherwise.
parseTrackFromBuffer(buffer, trackStart, sequenceIndex, tz) ==
    IF asciiAt(buffer, trackStart) # TagMhit THEN [ok |-> FALSE]
    ELSE IF ~canRead32(buffer, trackStart + 88)
    THEN [ok |-> FALSE]                          \* a read threw: catch returns null
    ELSE
    LET mhitHeaderSize == readUInt32LE(buffer, trackStart + 4)
        mhitTotalSize == readUInt32LE(buffer, trackStart + 8)
        numMhods == readUInt32LE(buffer, trackStart + 12)
        trackLength == readUInt32LE(buffer, trackStart + 40)
        playCount == readUInt32LE(buffer, trackStart + 80)
        raw == readUInt32LE(buffer, trackStart + 88)
        track == newTrack(sequenceIndex, trackLength, playCount,
                          hfsToUnixGuarded(raw, tz), raw, trackStart)
    IN  [ok |-> TRUE,
         track |-> mhodLoop(buffer, 0, numMhods, trackStart + mhitHeaderSize,
                            trackStart + mhitTotalSize, track)]

(***************************************************************************)
(* Input files, built from a catalogue of records.                         *)
(***************************************************************************)
\* An HFS time 1000 s after the Unix epoch.
HfsPlayed == HfsEpochDelta + 1000

\* An mhod holding a UTF-16LE string of one character.
MhodString(mhodType, char) ==
    TagMhod \o U32(24) \o U32(42) \o U32(mhodType) \o Zeros(8)
        \o U32(1) \o U32(2) \o Zeros(8) \o <<char, 0>>

\* An mhit record: tag, header size 92, declared total size, mhod count,
\* identifier (+16), length (+40), play count (+80), last played (+88).
MhitRecord(r) ==
    r.tag \o U32(92) \o U32(r.declared) \o U32(IF r.titled THEN 1 ELSE 0)
        \o U32(r.dbid) \o Zeros(20) \o U32(240000) \o Zeros(36)
        \o U32(r.playCount) \o Zeros(4) \o U32(r.raw)
        \o (IF r.titled THEN MhodString(1, 65) ELSE <<>>)

RecordSize(r) == 92 + (IF r.titled THEN 42 ELSE 0)

Rec(kind, tag, declared, titled, dbid, playCount, raw) ==
    [kind |-> kind, tag |-> tag, declared |-> declared, titled |-> titled,
     dbid |-> dbid, playCount |-> playCount, raw |-> raw]

TagBad == <<109, 104, 105, 120>>

RecordCatalogue ==
    { Rec("good", TagMhit, 134, TRUE, 0, 2, HfsPlayed),
      Rec("good", TagMhit, 134, TRUE, 0, 1, 0),
      Rec("good", TagMhit, 134, TRUE, 1, 0, 0),
      Rec("untitled", TagMhit, 92, FALSE, 2, 0, 0),
      Rec("wrongTag", TagBad, 134, TRUE, 3, 1, HfsPlayed),
      Rec("zeroSize", TagBad, 0, TRUE, 3, 1, HfsPlayed),
      Rec("overSize", TagMhit, 150, FALSE, 4, 1, HfsPlayed) }

RECURSIVE RecordsBytes(_)
RecordsBytes(recs) ==
    IF recs = <<>> THEN <<>>
    ELSE MhitRecord(Head(recs)) \o RecordsBytes(Tail(recs))

\* The offset of record k of a layout that starts at offset base.
RECURSIVE RecordOffset(_, _, _)
RecordOffset(recs, base, k) ==
    IF k = 1 THEN base
    ELSE RecordOffset(recs, base, k - 1) + RecordSize(recs[k - 1])


(***************************************************************************)
(* SpecExpand: a decoded track list goes through getRecentTracks and/or    *)
(* scrobbleTracks.                                                         *)
(***************************************************************************)
LastPlayedValues == {900, 1000}
LengthValues == {0, 500, 180000}

InputTracks ==
    {Track(0, FALSE, 0, 0, len) : len \in LengthValues}
    \cup {Track(0, TRUE, pc, lp, len) :
            pc \in 0..MaxPlayCount, lp \in LastPlayedValues, len \in LengthValues}

ExpIdle ==
    /\ stage = "idle"
    /\ tracklist = <<>>
    /\ filtered = FALSE
    /\ expanded = <<>>
    /\ status = "none"

ScrIdle ==
    /\ scrPc = "idle"
    /\ scrCount = 0
    /\ request = <<>>
    /\ callback = <<>>
    /\ statusCalls = <<>>
    /\ failedTracks = <<>>
    /\ scrReturned = <<>>

DbIdle ==
    /\ dbPc = "idle"
    /\ dbPath = "none"
    /\ layout = <<>>
    /\ tzOffset = 0
    /\ dbHandle = "none"
    /\ dbTracks = <<>>
    /\ result = "pending"
    /\ cdbFile = <<>>
    /\ inflated = <<>>
    /\ datasetPos = 0
    /\ iter = 0
    /\ listPos = 0
    /\ listI = 0
    /\ numTracks = 0
    /\ udbFile = <<>>
    /\ totalBytesRead = 0
    /\ mhitCalls = <<>>
    /\ pcFile = <<>>
    /\ pcEntries = <<>>
    /\ pcHandle = "none"
    /\ tracksAtEntry = <<>>
    /\ dword = <<0, 0, 0, 0>>
    /\ entryLen = 0
    /\ numEntries = 0
    /\ bytesOffset = 0
    /\ entryIndex = 0

CdbIdle ==
    /\ cdbFile = <<>>
    /\ inflated = <<>>
    /\ datasetPos = 0
    /\ iter = 0
    /\ listPos = 0
    /\ listI = 0
    /\ numTracks = 0

UdbIdle ==
    /\ udbFile = <<>>
    /\ totalBytesRead = 0
    /\ mhitCalls = <<>>
    /\ pcFile = <<>>
    /\ pcEntries = <<>>
    /\ pcHandle = "none"
    /\ tracksAtEntry = <<>>
    /\ dword = <<0, 0, 0, 0>>
    /\ entryLen = 0
    /\ numEntries = 0
    /\ bytesOffset = 0
    /\ entryIndex = 0

InitExpand ==
    /\ stage = "input"
    /\ tracklist \in SeqsUpTo(InputTracks, MaxTracks)
    /\ filtered = FALSE
    /\ expanded = <<>>
    /\ status = "none"
    /\ ScrIdle
    /\ DbIdle

GetRecentTracks ==
    /\ stage = "input"
    /\ tracklist' = recentPlaysOf(tracklist)
    /\ filtered' = TRUE
    /\ stage' = "recent"
    /\ UNCHANGED <<expanded, status>>
    /\ UNCHANGED <<scrVars, dbVars, cdbVars, udbVars, pcVars>>

ScrobbleTracks ==
    /\ stage \in {"input", "recent"}
    /\ expanded' = expandTracksByPlayCount(tracklist)
    /\ \E ok \in BOOLEAN : status' = (IF ok THEN "true" ELSE "false")
    /\ stage' = "expanded"
    /\ UNCHANGED <<tracklist, filtered>>
    /\ UNCHANGED <<scrVars, dbVars, cdbVars, udbVars, pcVars>>

NextExpand == GetRecentTracks \/ ScrobbleTracks

SpecExpand == InitExpand /\ [][NextExpand]_vars

(***************************************************************************)
(* SpecScrobble: scrobbleTracksIndividually.  tracklist.map runs every     *)
(* callback up to its await, so all requests are issued before any         *)
(* response is handled; the responses then arrive in any order, and each   *)
(* callback resumes some time after its own request has settled.           *)
(***************************************************************************)
Outcomes == {"success", "failure", "throw"}

\* sendScrobbleRequest: response.data.success, or false from its catch.
sendScrobbleRequest(outcome) == outcome = "success"

\* Promise.all over no promise at all, or over the settled ones only.
promiseAllSettled_Any(cb) == \E i \in DOMAIN cb : cb[i] = "done"

\* await Promise.all(promises): every callback has run to its end.
promiseAllSettled(cb) == \A i \in DOMAIN cb : cb[i] = "done"

InitScrobble ==
    /\ scrPc = "start"
    /\ scrCount \in 0..MaxScrobbles
    /\ request = [i \in 1..scrCount |-> "unsent"]
    /\ callback = [i \in 1..scrCount |-> "waiting"]
    /\ statusCalls = [i \in 1..scrCount |-> <<>>]
    /\ failedTracks = <<>>
    /\ scrReturned = <<>>
    /\ ExpIdle
    /\ DbIdle

\* const promises = tracklist.map(async (track, index) => { ... await send ...
MapTracks ==
    /\ scrPc = "start"
    /\ request' = [i \in 1..scrCount |-> "pending"]
    /\ scrPc' = "awaiting"
    /\ UNCHANGED <<scrCount, callback, statusCalls, failedTracks, scrReturned>>
    /\ UNCHANGED <<expVars, dbVars, cdbVars, udbVars, pcVars>>

\* axios.post of request i settles: resolved with success true or false, or
\* rejected (network error, timeout).
RequestSettles(i, outcome) ==
    /\ scrPc = "awaiting"
    /\ request[i] = "pending"
    /\ request' = [request EXCEPT ![i] = outcome]
    /\ callback' = [callback EXCEPT ![i] = "resumable"]
    /\ UNCHANGED <<scrPc, scrCount, statusCalls, failedTracks, scrReturned>>
    /\ UNCHANGED <<expVars, dbVars, cdbVars, udbVars, pcVars>>

\* The callback of track i resumes after its await and runs to its end.
CallbackResumes(i) ==
    /\ scrPc = "awaiting"
    /\ callback[i] = "resumable"
    /\ IF sendScrobbleRequest(request[i])
       THEN /\ statusCalls' = [statusCalls EXCEPT ![i] = Append(@, "success")]
            /\ UNCHANGED failedTracks
       ELSE /\ statusCalls' = [statusCalls EXCEPT ![i] = Append(@, "failed")]
            /\ failedTracks' = Append(failedTracks, i)
    /\ callback' = [callback EXCEPT ![i] = "done"]
    /\ UNCHANGED <<scrPc, scrCount, request, scrReturned>>
    /\ UNCHANGED <<expVars, dbVars, cdbVars, udbVars, pcVars>>

\* await Promise.all(promises); return failedTracks
ReturnFailedTracks ==
    /\ scrPc = "awaiting"
    /\ promiseAllSettled(callback)
    /\ scrReturned' = failedTracks
    /\ scrPc' = "returned"
    /\ UNCHANGED <<scrCount, request, callback, statusCalls, failedTracks>>
    /\ UNCHANGED <<expVars, dbVars, cdbVars, udbVars, pcVars>>

NextScrobble ==
    \/ MapTracks
    \/ \E i \in 1..scrCount, o \in Outcomes : RequestSettles(i, o)
    \/ \E i \in 1..scrCount : CallbackResumes(i)
    \/ ReturnFailedTracks

SpecScrobble == InitScrobble /\ [][NextScrobble]_vars

(***************************************************************************)
(* SpecDecode: parse(iTunesDbPath, playCountsPath).                        *)
(*                                                                         *)
(* The compressed path.  The iTunesCDB file is its leading tag, whether    *)
(* its payload inflates, and the buffer it inflates to.                    *)
(***************************************************************************)
TimezoneOffsets == {-3600, 0}

Mhsd(totalSize, datasetType) ==
    TagMhsd \o U32(16) \o U32(totalSize) \o U32(datasetType)

Mhlt(count) == TagMhlt \o U32(12) \o U32(count)

\* What may precede the track-list dataset in the inflated buffer.
Prefixes ==
    { <<>>, <<1, 2, 3>>, Mhsd(16, 2), Mhsd(0, 2) }

Cuts == {0, 60, 128}

CutTail(bytes, cut) ==
    SubSeq(bytes, 1, IF Len(bytes) > cut THEN Len(bytes) - cut ELSE 0)

InflatedBuffer(prefix, recs, cut) ==
    CutTail(prefix \o Mhsd(28 + Len(RecordsBytes(recs)), 1) \o Mhlt(Len(recs))
                \o RecordsBytes(recs), cut)

Layouts == SeqsUpTo(RecordCatalogue, MaxRecords)

InitCompressed ==
    /\ dbPc = "open"
    /\ dbPath = "iTunesCDB"
    /\ layout \in Layouts
    /\ tzOffset \in TimezoneOffsets
    /\ dbHandle = "none"
    /\ dbTracks = <<>>
    /\ result = "pending"
    /\ \E tag \in {TagMhbd, TagBad}, inflates \in BOOLEAN,
          prefix \in Prefixes, cut \in Cuts :
          /\ (tag # TagMhbd \/ ~inflates) => (prefix = <<>> /\ cut = 0)
          /\ cdbFile = [tag |-> tag, inflates |-> inflates,
                        payload |-> InflatedBuffer(prefix, layout, cut),
                        base |-> Len(prefix) + 28]
    /\ inflated = <<>>
    /\ datasetPos = 0
    /\ iter = 0
    /\ listPos = 0
    /\ listI = 0
    /\ numTracks = 0
    /\ UdbIdle
    /\ ExpIdle
    /\ ScrIdle

\* isCompressed(filePath)
isCompressed(path) == path = "iTunesCDB"

\* parseItunesDb: const handler = await open(filePath, 'r').  A failed open
\* is caught, logged and rethrown: parseItunesDb rejects, and so does parse.
OpenDb ==
    /\ dbPc = "open"
    /\ \E opened \in BOOLEAN :
          IF opened
          THEN /\ dbHandle' = "open"
               /\ dbPc' = IF isCompressed(dbPath) THEN "cdbTag" ELSE "window"
               /\ UNCHANGED result
          ELSE /\ dbPc' = "done"
               /\ result' = "rejected"
               /\ UNCHANGED dbHandle
    /\ UNCHANGED <<dbPath, layout, tzOffset, dbTracks>>
    /\ UNCHANGED <<expVars, scrVars, cdbVars, udbVars, pcVars>>

\* parseCompressedItunesDb, lines 63-68: read the 4 bytes at offset 0 and
\* compare them with 'mhbd'.  A wrong tag returns the empty tracklist; a read
\* error is caught by the function's own catch, which returns it too.
ReadContainerTag ==
    /\ dbPc = "cdbTag"
    /\ \E readFails \in BOOLEAN :
          dbPc' = IF readFails \/ [k \in 1..4 |-> cdbFile.tag[k] % 128] # TagMhbd
                  THEN "close" ELSE "cdbPayload"
    /\ UNCHANGED <<dbPath, layout, tzOffset, dbHandle, dbTracks, result>>
    /\ UNCHANGED <<expVars, scrVars, cdbVars, udbVars, pcVars>>

\* parseCompressedItunesDb, lines 71-87: read the header size and the payload,
\* inflate it.  inflateRaw's error is rethrown by the inner catch and caught by
\* the function's own catch, which returns the empty tracklist.
ReadAndInflate ==
    /\ dbPc = "cdbPayload"
    /\ \E readFails \in BOOLEAN :
          IF readFails \/ ~cdbFile.inflates
          THEN /\ dbPc' = "close"
               /\ UNCHANGED <<inflated, datasetPos>>
          ELSE /\ inflated' = cdbFile.payload
               /\ datasetPos' = 0
               /\ dbPc' = "scan"
    /\ UNCHANGED <<dbPath, layout, tzOffset, dbHandle, dbTracks, result>>
    /\ UNCHANGED <<cdbFile, iter, listPos, listI, numTracks>>
    /\ UNCHANGED <<expVars, scrVars, udbVars, pcVars>>

\* parseDecompressedDatabase: the loop condition fails.
DatasetScanEnds ==
    /\ dbPc = "scan"
    /\ ~(datasetPos < Len(inflated) - 8)
    /\ dbPc' = "close"
    /\ UNCHANGED <<dbPath, layout, tzOffset, dbHandle, dbTracks, result>>
    /\ UNCHANGED <<expVars, scrVars, cdbVars, udbVars, pcVars>>

\* parseDecompressedDatabase: one iteration of while (pos < buffer.length - 8).
DatasetScanStep ==
    /\ dbPc = "scan"
    /\ iter < MaxIter
    /\ datasetPos < Len(inflated) - 8
    /\ iter' = iter + 1
    /\ IF asciiAt(inflated, datasetPos) # TagMhsd
       THEN /\ datasetPos' = datasetPos + 1
            /\ UNCHANGED <<dbPc, listPos>>
       ELSE IF ~canRead32(inflated, datasetPos + 12)
       THEN /\ dbPc' = "close"                   \* a read threw: caught, return
            /\ UNCHANGED <<datasetPos, listPos>>
       ELSE IF readUInt32LE(inflated, datasetPos + 12) = 1
       THEN /\ listPos' = datasetPos + readUInt32LE(inflated, datasetPos + 4)
            /\ dbPc' = "trackList"
            /\ UNCHANGED datasetPos
       ELSE /\ datasetPos' = datasetPos + readUInt32LE(inflated, datasetPos + 8)
            /\ UNCHANGED <<dbPc, listPos>>
    /\ UNCHANGED <<dbPath, layout, tzOffset, dbHandle, dbTracks, result>>
    /\ UNCHANGED <<cdbFile, inflated, listI, numTracks>>
    /\ UNCHANGED <<expVars, scrVars, udbVars, pcVars>>

\* parseTrackList, lines 138-153: the mhlt header.
ParseTrackListHeader ==
    /\ dbPc = "trackList"
    /\ IF asciiAt(inflated, listPos) # TagMhlt \/ ~canRead32(inflated, listPos + 8)
       THEN /\ dbPc' = "close"
            /\ UNCHANGED <<listPos, listI, numTracks>>
       ELSE /\ numTracks' = readUInt32LE(inflated, listPos + 8)
            /\ listPos' = listPos + readUInt32LE(inflated, listPos + 4)
            /\ listI' = 0
            /\ dbPc' = "tracks"
    /\ UNCHANGED <<dbPath, layout, tzOffset, dbHandle, dbTracks, result>>
    /\ UNCHANGED <<cdbFile, inflated, datasetPos, iter>>
    /\ UNCHANGED <<expVars, scrVars, udbVars, pcVars>>

\* parseTrackList: the loop condition fails; the tracks go to the caller.
TrackListEnds ==
    /\ dbPc = "tracks"
    /\ ~(listI < numTracks /\ listPos < Len(inflated))
    /\ dbPc' = "close"
    /\ UNCHANGED <<dbPath, layout, tzOffset, dbHandle, dbTracks, result>>
    /\ UNCHANGED <<expVars, scrVars, cdbVars, udbVars, pcVars>>

\* pos += mhitTotalSize
nextTrackPos(buffer, p) == p + readUInt32LE(buffer, p + 8)

\* parseTrackList: one iteration of the for loop.
TrackStep ==
    /\ dbPc = "tracks"
    /\ listI < numTracks /\ listPos < Len(inflated)
    /\ LET t == parseTrackFromBuffer(inflated, listPos, listI, tzOffset)
       IN  dbTracks' = IF t.ok /\ t.track.track # <<>>
                       THEN Append(dbTracks, t.track) ELSE dbTracks
    /\ IF canRead32(inflated, listPos + 8)
       THEN /\ listPos' = nextTrackPos(inflated, listPos)
            /\ listI' = listI + 1
            /\ UNCHANGED dbPc
       ELSE /\ dbPc' = "close"                   \* a read threw: caught, return
            /\ UNCHANGED <<listPos, listI>>
    /\ UNCHANGED <<dbPath, layout, tzOffset, dbHandle, result>>
    /\ UNCHANGED <<cdbFile, inflated, datasetPos, iter, numTracks>>
    /\ UNCHANGED <<expVars, scrVars, udbVars, pcVars>>

\* parseItunesDb: await handler.close(); return tracklist.  parse() then
\* returns it for a compressed database.
CloseDb ==
    /\ dbPc = "close"
    /\ dbHandle' = "closed"
    /\ IF isCompressed(dbPath)
       THEN /\ dbPc' = "done"
            /\ result' = "resolved"
       ELSE /\ dbPc' = "pcOpen"
            /\ UNCHANGED result
    /\ UNCHANGED <<dbPath, layout, tzOffset, dbTracks>>
    /\ UNCHANGED <<expVars, scrVars, cdbVars, udbVars, pcVars>>

(***************************************************************************)
(* The uncompressed path: the windowed marker scan of the iTunesDB file.   *)
(***************************************************************************)
\* handler.read(buffer, 0, length, position) fills the first bytesRead bytes
\* of the buffer and leaves the rest as it was.
bytesReadAt(file, position, length) ==
    IF position >= Len(file) THEN 0
    ELSE IF Len(file) - position < length THEN Len(file) - position ELSE length

readBytesAtPosition(buffer, file, position) ==
    [k \in 1..Len(buffer) |->
        IF position + k <= Len(file) THEN file[position + k] ELSE buffer[k]]

\* Number(littleEndianToBigInt(byteArray)): the bytes reversed, then read as
\* one big-endian number.
RECURSIVE bigEndianValue(_)
bigEndianValue(bytes) ==
    IF bytes = <<>> THEN 0
    ELSE 256 * bigEndianValue(SubSeq(bytes, 1, Len(bytes) - 1)) + bytes[Len(bytes)]

littleEndianToBigInt(byteArray) ==
    bigEndianValue([k \in 1..Len(byteArray) |-> byteArray[Len(byteArray) - k + 1]])

\* The track object parseMhit builds: id and length only; the strings are
\* absent (empty here) until parsemhod stores them.
newScannedTrack(id, length, at) ==
    [track |-> <<>>, artist |-> <<>>, album |-> <<>>,
     hasPlays |-> FALSE, playCount |-> 0, lastPlayed |-> 0,
     id |-> id, length |-> length, raw |-> 0, at |-> at]

\* Returns totalSizeValue and the track with the string stored.
parsemhod(track, file, startOffset, headerSize) ==
    LET mhod == startOffset + headerSize - 4
        d1 == readBytesAtPosition(Zeros(4), file, mhod + 8)
        totalSizeValue == littleEndianToBigInt(d1)
        d2 == readBytesAtPosition(d1, file, mhod + 12)
        mhodTypeValue == littleEndianToBigInt(d2)
        d3 == readBytesAtPosition(d2, file, mhod + 28)
        stringLengthValue == littleEndianToBigInt(d3)
    IN  IF mhodTypeValue \in {1, 3, 4}
           /\ stringLengthValue > 0 /\ stringLengthValue < 10000
        THEN LET dataArray ==
                     readBytesAtPosition(Zeros(stringLengthValue), file, mhod + 40)
             IN  [size |-> totalSizeValue,
                  track |-> setString(track, mhodTypeValue,
                                decodeUtf16le(dataArray, 0, stringLengthValue))]
        ELSE [size |-> totalSizeValue, track |-> track]

\* for (let i = 0; i < mhodEntriesCount; ++i) { ...; startOffset += totalSize }
RECURSIVE parsemhodLoop(_, _, _, _, _, _)
parsemhodLoop(file, i, mhodEntriesCount, startOffset, headerSize, track) ==
    IF ~(i < mhodEntriesCount) THEN track
    ELSE LET r == parsemhod(track, file, startOffset, headerSize)
         IN  parsemhodLoop(file, i + 1, mhodEntriesCount, startOffset + r.size,
                           headerSize, r.track)

\* parseMhit(handler, startOffset), startOffset being the marker's offset + 4.
parseMhit(file, startOffset) ==
    LET d1 == readBytesAtPosition(Zeros(4), file, startOffset)
        headerSize == littleEndianToBigInt(d1)
        d2 == readBytesAtPosition(d1, file, startOffset + 8)
        mhodEntriesCount == littleEndianToBigInt(d2)
        d3 == readBytesAtPosition(d2, file, startOffset + 12)
        id == littleEndianToBigInt(d3)
        d4 == readBytesAtPosition(d3, file, startOffset + 36)
        length == littleEndianToBigInt(d4)
    IN  parsemhodLoop(file, 0, mhodEntriesCount, startOffset, headerSize,
                      newScannedTrack(id, length, startOffset - 4))

\* The scaled-down read window (1 MB in the code).
bufferSize == 100

\* searchMhitInBuffer: buffer[i] is 'm' and the next three bytes are 'hit'.
markerAt(file, offset, i) ==
    /\ file[offset + i + 1] = 109
    /\ <<file[offset + i + 2], file[offset + i + 3], file[offset + i + 4]>>
         = <<104, 105, 116>>

\* for (let i = 0; i < length - 4; i++): the window indexes the loop visits.
scannedIndexes(length) == 0..(length - 5)

\* The window indexes at which searchMhitInBuffer calls parseMhit.
markers(file, offset, length) ==
    {i \in scannedIndexes(length) : markerAt(file, offset, i)}

\* The tracks searchMhitInBuffer pushes for the markers from window index i
\* on, in increasing order, stopping before the marker whose parseMhit fails
\* (failAt counts the markers still to pass, -1: none fails).
RECURSIVE searchMhitInBuffer(_, _, _, _, _)
searchMhitInBuffer(file, offset, length, i, failAt) ==
    LET rest == {m \in markers(file, offset, length) : m >= i}
    IN  IF rest = {} \/ failAt = 0 THEN <<>>
        ELSE LET m == CHOOSE x \in rest : \A y \in rest : x <= y
                 track == parseMhit(file, offset + m + 4)
             IN  (IF track.track # <<>> THEN <<track>> ELSE <<>>)
                 \o searchMhitInBuffer(file, offset, length, m + 1,
                                       IF failAt > 0 THEN failAt - 1 ELSE failAt)

\* The file offsets of the markers of the window for which searchMhitInBuffer
\* calls parseMhit and parseMhit returns, in the order of the calls.
RECURSIVE parseMhitCalls(_, _, _, _, _)
parseMhitCalls(file, offset, length, i, failAt) ==
    LET rest == {m \in markers(file, offset, length) : m >= i}
    IN  IF rest = {} \/ failAt = 0 THEN <<>>
        ELSE LET m == CHOOSE x \in rest : \A y \in rest : x <= y
             IN  <<offset + m>>
                 \o parseMhitCalls(file, offset, length, m + 1,
                                   IF failAt > 0 THEN failAt - 1 ELSE failAt)

markerCount(file, offset, length) == Cardinality(markers(file, offset, length))

\* What precedes the records in the file, and how many bytes the end of the
\* file lacks.
FileShapes ==
    { [prefix |-> <<>>, cut |-> 0], [prefix |-> <<>>, cut |-> 60],
      [prefix |-> <<1, 2, 3, 4>>, cut |-> 0], [prefix |-> <<1, 2, 3, 4, 5>>, cut |-> 0] }

(***************************************************************************)
(* The Play Counts file: 8 bytes, entryLen, numEntries, 80 bytes, then one *)
(* entry of entryLen bytes per track: play count, last played, padding.    *)
(***************************************************************************)
Entry(playCount, raw) == [playCount |-> playCount, raw |-> raw]

EntryCatalogue == { Entry(0, 0), Entry(2, HfsPlayed), Entry(1, 0) }

RECURSIVE EntriesBytes(_, _)
EntriesBytes(entries, len) ==
    IF entries = <<>> THEN <<>>
    ELSE U32(Head(entries).playCount) \o U32(Head(entries).raw) \o Zeros(len - 8)
         \o EntriesBytes(Tail(entries), len)

\* The file declares one entry more than the loop reads; overdeclared adds
\* entries the file does not hold.
PlayCountsFile(len, entries, overdeclared) ==
    Zeros(8) \o U32(len) \o U32(Len(entries) + 1 + overdeclared) \o Zeros(80)
        \o EntriesBytes(entries, len)

InitUncompressed ==
    /\ dbPc = "open"
    /\ dbPath = "iTunesDB"
    /\ layout \in Layouts
    /\ tzOffset \in TimezoneOffsets
    /\ dbHandle = "none"
    /\ dbTracks = <<>>
    /\ result = "pending"
    /\ CdbIdle
    /\ \E shape \in FileShapes :
          udbFile = CutTail(shape.prefix \o RecordsBytes(layout), shape.cut)
    /\ totalBytesRead = 0
    /\ mhitCalls = <<>>
    /\ pcFile = <<>>
    /\ pcEntries = <<>>
    /\ pcHandle = "none"
    /\ tracksAtEntry = <<>>
    /\ dword = <<0, 0, 0, 0>>
    /\ entryLen = 0
    /\ numEntries = 0
    /\ bytesOffset = 0
    /\ entryIndex = 0
    /\ ExpIdle
    /\ ScrIdle

\* parseUncompressedItunesDb: one iteration of while (true): read a window,
\* search it, advance.  A read error, of the window or inside parseMhit, is
\* caught by the function's catch, which returns the tracks pushed so far.
ScanWindow ==
    /\ dbPc = "window"
    /\ LET bytesRead == bytesReadAt(udbFile, totalBytesRead, bufferSize)
       IN  \/ /\ dbTracks' = dbTracks \o
                    searchMhitInBuffer(udbFile, totalBytesRead, bytesRead, 0, -1)
              /\ mhitCalls' = mhitCalls \o
                    parseMhitCalls(udbFile, totalBytesRead, bytesRead, 0, -1)
              /\ totalBytesRead' = totalBytesRead + bytesRead
              /\ dbPc' = IF bytesRead < bufferSize THEN "close" ELSE "window"
           \/ /\ \E failAt \in 0..(markerCount(udbFile, totalBytesRead, bytesRead) - 1)
                                \cup {0} :
                    /\ dbTracks' = dbTracks \o
                          searchMhitInBuffer(udbFile, totalBytesRead, bytesRead, 0, failAt)
                    /\ mhitCalls' = mhitCalls \o
                          parseMhitCalls(udbFile, totalBytesRead, bytesRead, 0, failAt)
              /\ dbPc' = "close"
              /\ UNCHANGED totalBytesRead
    /\ UNCHANGED <<dbPath, layout, tzOffset, dbHandle, result>>
    /\ UNCHANGED udbFile
    /\ UNCHANGED <<expVars, scrVars, cdbVars, pcVars>>

\* parsePlayCounts: const handler = await open(filePath, 'r').  The file that
\* is opened holds up to MaxEntries entries of 8 or 16 bytes; the 8-byte one
\* declares an entry it does not hold.  A failed open is caught and logged;
\* parsePlayCounts returns and parse() resolves.
OpenPlayCounts ==
    /\ dbPc = "pcOpen"
    /\ tracksAtEntry' = dbTracks
    /\ \/ /\ pcHandle' = "open"
          /\ pcEntries' \in SeqsUpTo(EntryCatalogue, MaxEntries)
          /\ \E len \in {8, 16} :
                pcFile' = PlayCountsFile(len, pcEntries', IF len = 8 THEN 1 ELSE 0)
          /\ dbPc' = "pcHeader"
          /\ UNCHANGED result
       \/ /\ dbPc' = "done"
          /\ result' = "resolved"
          /\ UNCHANGED <<pcHandle, pcFile, pcEntries>>
    /\ UNCHANGED <<dbPath, layout, tzOffset, dbHandle, dbTracks>>
    /\ UNCHANGED <<dword, entryLen, numEntries, bytesOffset, entryIndex>>
    /\ UNCHANGED <<expVars, scrVars, cdbVars, udbVars>>

\* parsePlayCounts, lines 421-448: entryLen at offset 8, numEntries at 12.
\* A read error is caught and logged: the function returns.
ReadPlayCountsHeader ==
    /\ dbPc = "pcHeader"
    /\ \E readFails \in BOOLEAN :
          IF readFails
          THEN /\ dbPc' = "done"
               /\ result' = "resolved"
               /\ UNCHANGED <<dword, entryLen, numEntries, bytesOffset, entryIndex>>
          ELSE LET d1 == readBytesAtPosition(dword, pcFile, 8)
                   d2 == readBytesAtPosition(d1, pcFile, 12)
               IN  /\ entryLen' = littleEndianToBigInt(d1)
                   /\ numEntries' = littleEndianToBigInt(d2)
                   /\ dword' = d2
                   /\ bytesOffset' = 96
                   /\ entryIndex' = 0
                   /\ dbPc' = "pcEntries"
                   /\ UNCHANGED result
    /\ UNCHANGED <<dbPath, layout, tzOffset, dbHandle, dbTracks>>
    /\ UNCHANGED <<pcFile, pcEntries, pcHandle, tracksAtEntry>>
    /\ UNCHANGED <<expVars, scrVars, cdbVars, udbVars>>

\* tracklist.findIndex(t => t.id === i), 0 for -1.
RECURSIVE findIndexFrom(_, _, _)
findIndexFrom(list, i, k) ==
    IF k > Len(list) THEN 0
    ELSE IF list[k].id = i THEN k
    ELSE findIndexFrom(list, i, k + 1)

findIndex(list, i) == findIndexFrom(list, i, 1)

\* tracklist[trackIndex].playCount = playCount; .lastPlayed = lastPlayed
withPlays(list, trackIndex, playCount, raw, tz) ==
    IF trackIndex = 0 THEN list
    ELSE [list EXCEPT ![trackIndex] =
            [@ EXCEPT !.hasPlays = TRUE, !.playCount = playCount,
                      !.lastPlayed = hfsToUnixUnguarded(raw, tz), !.raw = raw]]

\* parsePlayCounts: one iteration of for (let i = 0; i < numEntries - 1; i++).
PlayCountsEntry ==
    /\ dbPc = "pcEntries"
    /\ entryIndex < numEntries - 1
    /\ \E readFails \in BOOLEAN :
          IF readFails
          THEN /\ dbPc' = "done"
               /\ result' = "resolved"
               /\ UNCHANGED <<dword, bytesOffset, entryIndex, dbTracks>>
          ELSE LET d1 == readBytesAtPosition(dword, pcFile, bytesOffset)
                   playCount == littleEndianToBigInt(d1)
                   d2 == readBytesAtPosition(d1, pcFile, bytesOffset + 4)
               IN  /\ IF playCount > 0
                      THEN /\ dword' = d2
                           /\ dbTracks' =
                                 withPlays(dbTracks, findIndex(dbTracks, entryIndex),
                                           playCount, littleEndianToBigInt(d2), tzOffset)
                      ELSE /\ dword' = d1
                           /\ UNCHANGED dbTracks
                   /\ bytesOffset' = bytesOffset + entryLen
                   /\ entryIndex' = entryIndex + 1
                   /\ UNCHANGED <<dbPc, result>>
    /\ UNCHANGED <<dbPath, layout, tzOffset, dbHandle>>
    /\ UNCHANGED <<pcFile, pcEntries, pcHandle, tracksAtEntry, entryLen, numEntries>>
    /\ UNCHANGED <<expVars, scrVars, cdbVars, udbVars>>

\* parsePlayCounts: the loop is over; await handler.close(); parse() returns.
ClosePlayCounts ==
    /\ dbPc = "pcEntries"
    /\ ~(entryIndex < numEntries - 1)
    /\ pcHandle' = "closed"
    /\ dbPc' = "done"
    /\ result' = "resolved"
    /\ UNCHANGED <<dbPath, layout, tzOffset, dbHandle, dbTracks>>
    /\ UNCHANGED <<pcFile, pcEntries, tracksAtEntry, dword, entryLen, numEntries,
                   bytesOffset, entryIndex>>
    /\ UNCHANGED <<expVars, scrVars, cdbVars, udbVars>>

InitDecode == InitCompressed \/ InitUncompressed

NextDecode ==
    \/ OpenDb
    \/ ReadContainerTag
    \/ ReadAndInflate
    \/ DatasetScanEnds
    \/ DatasetScanStep
    \/ ParseTrackListHeader
    \/ TrackListEnds
    \/ TrackStep
    \/ CloseDb
    \/ ScanWindow
    \/ OpenPlayCounts
    \/ ReadPlayCountsHeader
    \/ PlayCountsEntry
    \/ ClosePlayCounts

SpecDecode == InitDecode /\ [][NextDecode]_vars

(***************************************************************************)
(* C1.  The play-event list obtained by getRecentTracks followed by        *)
(* expandTracksByPlayCount is sorted descending by event timestamp: every  *)
(* event is at least as recent as the one after it.                        *)
(***************************************************************************)
C1_EventsSortedDescending ==
    (stage = "expanded" /\ filtered) =>
        \A j \in 1..(Len(expanded) - 1) :
            expanded[j].lastPlayed >= expanded[j + 1].lastPlayed

(***************************************************************************)
(* C2.  The events of one input track, in the order the expander emitted   *)
(* them.                                                                   *)
(***************************************************************************)
EventsOf(k) == SelectSeq(expanded, LAMBDA e : e.src = k)

SpacingOf(t) == (IF t.length = 0 THEN 180000 ELSE t.length) \div 1000

HasPlayedEntry(i) ==
    /\ i < numEntries - 1
    /\ i + 1 <= Len(pcEntries)
    /\ pcEntries[i + 1].playCount # 0

PlaysChanged(k) ==
    \/ dbTracks[k].hasPlays # tracksAtEntry[k].hasPlays
    \/ dbTracks[k].playCount # tracksAtEntry[k].playCount
    \/ dbTracks[k].lastPlayed # tracksAtEntry[k].lastPlayed

\* C3: changed iff a matching played entry exists; list length kept;
\* entry i read at 96 + i * entryLen.
C3_ChangedIffMatchingEntry ==
    /\ dbPc = "pcEntries" => bytesOffset = 96 + entryIndex * entryLen
    /\ dbPc \in {"pcHeader", "pcEntries"} => Len(dbTracks) = Len(tracksAtEntry)
    /\ (dbPc = "done" /\ pcHandle = "closed") =>
          /\ Len(dbTracks) = Len(tracksAtEntry)
          /\ \A k \in 1..Len(dbTracks) :
                PlaysChanged(k) <=>
                    \E i \in 0..(numEntries - 2) :
                        HasPlayedEntry(i) /\ tracksAtEntry[k].id = i

(***************************************************************************)
(* C4.  A decode of a compressed database whose leading tag is not 'mhbd'  *)
(* or whose payload does not inflate never resolves normally: parse        *)
(* resolves only for a file with the right tag and an inflatable payload.  *)
(***************************************************************************)
C4_ContainerErrorsSurface ==
    (isCompressed(dbPath) /\ result = "resolved") =>
        /\ [k \in 1..4 |-> cdbFile.tag[k] % 128] = TagMhbd
        /\ cdbFile.inflates

(***************************************************************************)
(* C5.  When the parse call has completed, no file handle it opened is     *)
(* still open.                                                             *)
(***************************************************************************)
C5_HandlesReleased ==
    dbPc = "done" => (dbHandle # "open" /\ pcHandle # "open")

(***************************************************************************)
(* C6.  In the track list one decode pass returns no two tracks have the   *)
(* same id, and the ids of the uncompressed scan follow the scan order     *)
(* from 0 on.                                                              *)
(***************************************************************************)
C6_UniqueSequenceIds ==
    dbPc = "close" =>
        /\ \A a, b \in 1..Len(dbTracks) : a # b => dbTracks[a].id # dbTracks[b].id
        /\ ~isCompressed(dbPath) =>
              /\ Len(dbTracks) > 0 => dbTracks[1].id >= 0
              /\ \A a \in 1..(Len(dbTracks) - 1) : dbTracks[a].id < dbTracks[a + 1].id

(***************************************************************************)
(* C7.  The last-played time of every track that has one is the stored     *)
(* HFS value converted: 0 for a stored 0, and x - 2082844800 + the local   *)
(* offset for a stored x > 0.                                              *)
(***************************************************************************)
C7_HfsToUnix ==
    \A k \in 1..Len(dbTracks) :
        dbTracks[k].hasPlays =>
            dbTracks[k].lastPlayed =
                (IF dbTracks[k].raw = 0 THEN 0
                 ELSE dbTracks[k].raw - 2082844800 + tzOffset)

(***************************************************************************)
(* C8.  A wrong-tag or truncated mhit record does not abort the iteration: *)
(* when the structured walk or the marker scan has run to its end, every   *)
(* well-formed titled mhit record that lies after such a record is in the  *)
(* returned track list.                                                    *)
(***************************************************************************)
\* The offset of the first record: after the prefix, mhsd and mhlt in the
\* inflated buffer, after the prefix in the iTunesDB file.
FirstRecordAt ==
    IF isCompressed(dbPath) THEN cdbFile.base
    ELSE LET shape == CHOOSE sh \in FileShapes :
                          udbFile = CutTail(sh.prefix \o RecordsBytes(layout), sh.cut)
         IN  Len(shape.prefix)

InputBytes == IF isCompressed(dbPath) THEN inflated ELSE udbFile

OffsetOf(m) == RecordOffset(layout, FirstRecordAt, m)

\* Record m is a well-formed titled mhit record, all of it in the input.
WellFormedTitled(m) ==
    /\ layout[m].kind = "good"
    /\ OffsetOf(m) + RecordSize(layout[m]) <= Len(InputBytes)

BadRecord(m) == layout[m].kind \in {"wrongTag", "zeroSize", "overSize"}

Returned(m) == \E k \in 1..Len(dbTracks) : dbTracks[k].at = OffsetOf(m)

\* parseTrackList left its loop by the loop condition.
WalkFinished ==
    dbPc = "tracks" /\ ~(listI < numTracks /\ listPos < Len(inflated))

\* parseUncompressedItunesDb left its loop by the break.
ScanFinished ==
    /\ ~isCompressed(dbPath)
    /\ dbPc = "close"
    /\ totalBytesRead = Len(udbFile)

\* C8: every well-formed titled record after a bad one is returned.
C8_RecordsAfterBadOneReturned ==
    (WalkFinished \/ ScanFinished) =>
        \A b, m \in 1..Len(layout) :
            (b < m /\ BadRecord(b) /\ WellFormedTitled(m)) => Returned(m)

(***************************************************************************)
(* C10.  The dataset-scan cursor of parseDecompressedDatabase strictly     *)
(* increases on every iteration that does not end the loop.                *)
(***************************************************************************)
C10_DatasetCursorIncreases ==
    [][(dbPc = "scan" /\ dbPc' = "scan") => datasetPos' > datasetPos]_vars

(***************************************************************************)
(* C11.  When the streaming scan has run to its end, parseMhit was called  *)
(* exactly once for every 'mhit' marker whose four bytes lie inside one    *)
(* read window, the last four bytes of a window included, and for no       *)
(* other offset: only a marker that straddles two windows is missed.       *)
(***************************************************************************)
\* The four bytes at file offset o are 'mhit'.
IsMarker(o) ==
    /\ o + 4 <= Len(udbFile)
    /\ SubSeq(udbFile, o + 1, o + 4) = <<109, 104, 105, 116>>

\* The four bytes at file offset o belong to the same read window.
InOneWindow(o) == o \div bufferSize = (o + 3) \div bufferSize

CallsFor(o) == Cardinality({k \in 1..Len(mhitCalls) : mhitCalls[k] = o})

\* C11: a marker is decoded exactly once iff it lies inside one window.
C11_MarkerDecodedIffInOneWindow ==
    ScanFinished =>
        \A o \in 0..Len(udbFile) :
            CallsFor(o) = (IF IsMarker(o) /\ InOneWindow(o) THEN 1 ELSE 0)

(***************************************************************************)
(* C9.  scrobbleTracksIndividually calls updateTrackStatus at most once    *)
(* per index while it runs; when it resolves, every request has settled,   *)
(* every index was reported exactly once, "success" exactly when its own   *)
(* request succeeded and "failed" otherwise, and the returned list holds   *)
(* exactly the indices reported "failed", each once.                       *)
(***************************************************************************)
C9_IndependentOutcomes ==
    /\ \A i \in 1..scrCount : Len(statusCalls[i]) <= 1
    /\ scrPc = "returned" =>
        /\ \A i \in 1..scrCount :
            /\ request[i] \in Outcomes
            /\ statusCalls[i] =
                  <<IF request[i] = "success" THEN "success" ELSE "failed">>
        /\ \A i \in 1..scrCount :
              Cardinality({j \in 1..Len(scrReturned) : scrReturned[j] = i})
                = (IF statusCalls[i] = <<"failed">> THEN 1 ELSE 0)
        /\ \A j \in 1..Len(scrReturned) : scrReturned[j] \in 1..scrCount

C9_Witness ==
    /\ scrPc = "returned"
    /\ scrCount >= 3
    /\ \E i, j, k \in 1..scrCount :
          /\ request[i] = "throw" /\ request[j] = "failure" /\ request[k] = "success"
          /\ scrReturned = <<j, i>>

=============================================================================
